---------------------------- MODULE Spec2Model ----------------------------
(***************************************************************************)
(* Model of karte00.py: the classroom transcript / karte analysis script. *)
(*                                                                         *)
(* Strings of the source are Japanese; TLA+ strings are ASCII, so every    *)
(* literal is written in romaji: "kyoshi" is the teacher sentinel,         *)
(* "Ito", "Suzuki", "Tanaka" are students, and the keyword lists keep the  *)
(* order of the source's lists.  An utterance or a karte note is a         *)
(* sequence of tokens; `word in text` of the source (a substring test) is  *)
(* Contains(text, word): some token of the text is the word.               *)
(***************************************************************************)
EXTENDS Naturals, Integers, Sequences, FiniteSets, TLC

VARIABLES
    df_class,               \* the transcript: Seq of [speaker, content]
    karte_pattern,          \* the selected karte format
    karte_lines,            \* the uploaded karte text, one token sequence per line
    pc,                     \* position of the script before the tabs
    err,                    \* "none", or the exception that stopped the script
    df_karte,               \* rows [student, note] of the parsed karte
    students_in_class,      \* non-teacher speakers, order of first appearance
    all_students,           \* set(students_in_class + students_in_karte)
    pc1,                    \* position inside tab 2 of the UI (interaction analysis)
    interactions,           \* ordered dict speaker -> list of interaction records
    event_log,              \* history: the events in emission order, with their pair
    G,                      \* the interaction graph
    fold_pos,               \* number of interaction records already folded into G
    pc2,                    \* position inside tab 3 of the UI (whole-class analysis)
    max_teacher_sequence,   \* whole-class tab: max run of teacher utterances (0: none)
    long_run_warning,       \* whole-class tab: the st.warning was shown
    pc3,                    \* position inside tab 4 of the UI (suggestions)
    silent_students,        \* suggestion tab: list of silent students
    suggestions,            \* suggestion tab: class-level suggestions
    suggestion_student,     \* suggestion tab: student selected for individual suggestions
    individual_suggestions, \* suggestion tab: result of generate_teaching_suggestions
    selected_student,       \* individual tab: selected student
    relationships,          \* st.session_state.relationships
    karte_page,             \* st.session_state.karte_page
    clock,                  \* wall clock, in minutes
    last_op                 \* history: the last session handler that ran

vars == <<df_class, karte_pattern, karte_lines, pc, err, df_karte,
          students_in_class, all_students, pc1, interactions, event_log, G,
          fold_pos, pc2, max_teacher_sequence, long_run_warning, pc3,
          silent_students, suggestions, suggestion_student,
          individual_suggestions, selected_student, relationships,
          karte_page, clock, last_op>>

inputVars == <<df_class, karte_pattern, karte_lines>>
parseVars == <<pc, err, df_karte, students_in_class, all_students>>
tab1Vars == <<pc1, interactions, event_log, G, fold_pos>>
tab2Vars == <<pc2, max_teacher_sequence, long_run_warning>>
tab3Vars == <<pc3, silent_students, suggestions, suggestion_student,
              individual_suggestions>>
sessionVars == <<selected_student, relationships, karte_page, clock, last_op>>

-----------------------------------------------------------------------------
(* Bounds of the explored inputs *)

MaxLen == 4            \* transcript length, interaction specification

-----------------------------------------------------------------------------
(* Literals of the source *)

Teacher == "kyoshi"
Students == {"Ito", "Suzuki"}
KarteOnly == "Tanaka"

QuestionWords == <<"?zenkaku", "?", "dou", "naze", "doko", "itsu", "dare">>
AgreeWords == <<"sou", "hai", "onaji", "sansei">>
DisagreeWords == <<"chigau", "demo", "shikashi", "hantai">>

(* Utterance contents used as inputs. *)
PlainContent == <<"180do", "desu">>
QuestionContent == <<"180do", "desu", "?zenkaku">>
AgreeContent == <<"sou", "desu">>
DisagreeContent == <<"chigau", "to", "omou">>
BothContent == <<"sou", "onaji", "iken", "dakedo", "chigau", "to", "omou">>
StudentContents == {PlainContent, QuestionContent, AgreeContent,
                    DisagreeContent, BothContent}

-----------------------------------------------------------------------------
(* Helpers *)

Range(s) == {s[k] : k \in DOMAIN s}

Contains(text, word) == \E k \in DOMAIN text : text[k] = word

AnyIn(words, text) == \E w \in DOMAIN words : Contains(text, words[w])

SeqsUpTo(S, n) == UNION {[1..k -> S] : k \in 0..n}

(* interactions[key].append(rec) on a defaultdict(list): dicts keep the     *)
(* insertion order of their keys.                                           *)
DictAppend(d, key, rec) ==
    IF \E j \in DOMAIN d : d[j].student = key
    THEN [j \in DOMAIN d |->
            IF d[j].student = key
            THEN [d[j] EXCEPT !.list = Append(@, rec)]
            ELSE d[j]]
    ELSE Append(d, [student |-> key, list |-> <<rec>>])

-----------------------------------------------------------------------------
(* analyze_student_interactions *)

IsQuestion(content) == AnyIn(QuestionWords, content)
IsAgree(content) == AnyIn(AgreeWords, content)
IsDisagree(content) == AnyIn(DisagreeWords, content)

(* The loop body with `or` in place of `and`: only teacher-teacher skipped. *)
SkipPairBothTeacher(current_speaker, next_speaker) ==
    current_speaker = Teacher /\ next_speaker = Teacher

SkipPair(current_speaker, next_speaker) ==
    ~(current_speaker /= Teacher /\ next_speaker /= Teacher)

AgreementEvent(df, i) ==
    [key |-> df[i + 1].speaker,
     rec |-> [type |-> "agreement", target |-> df[i].speaker,
              content |-> df[i + 1].content]]

DisagreementEvent(df, i) ==
    [key |-> df[i + 1].speaker,
     rec |-> [type |-> "disagreement", target |-> df[i].speaker,
              content |-> df[i + 1].content]]

(* if any(word in current_content for word in [...]): append a question *)
QuestionEvents(df, i) ==
    IF IsQuestion(df[i].content)
    THEN <<[key |-> df[i].speaker,
            rec |-> [type |-> "question", target |-> df[i + 1].speaker,
                     content |-> df[i].content,
                     response |-> df[i + 1].content]]>>
    ELSE <<>>

(* The stance test with a second `if` in place of the `elif`. *)
StanceEventsTwoIfs(df, i) ==
    (IF IsAgree(df[i + 1].content) THEN <<AgreementEvent(df, i)>> ELSE <<>>)
    \o (IF IsDisagree(df[i + 1].content) THEN <<DisagreementEvent(df, i)>>
        ELSE <<>>)

(* if any(... agreement words): ... elif any(... disagreement words): ...   *)
StanceEvents(df, i) ==
    IF IsAgree(df[i + 1].content) THEN <<AgreementEvent(df, i)>>
    ELSE IF IsDisagree(df[i + 1].content) THEN <<DisagreementEvent(df, i)>>
    ELSE <<>>

(* The loop body with the stance test chained to the question test by elif. *)
PairEventsOneChain(df, i) ==
    IF SkipPair(df[i].speaker, df[i + 1].speaker) THEN <<>>
    ELSE IF QuestionEvents(df, i) /= <<>> THEN QuestionEvents(df, i)
    ELSE StanceEvents(df, i)

(* The records one iteration of the loop appends, in order, each with the   *)
(* key of `interactions` it is appended under.                              *)
PairEvents(df, i) ==
    IF SkipPair(df[i].speaker, df[i + 1].speaker) THEN <<>>
    ELSE QuestionEvents(df, i) \o StanceEvents(df, i)

RECURSIVE AppendAll(_, _, _)
AppendAll(d, evs, k) ==
    IF k > Len(evs) THEN d
    ELSE AppendAll(DictAppend(d, evs[k].key, evs[k].rec), evs, k + 1)

(* for i in range(len(df_class) - 1): ... *)
RECURSIVE AnalyzeFrom(_, _, _)
AnalyzeFrom(df, i, d) ==
    IF i > Len(df) - 1 THEN d
    ELSE AnalyzeFrom(df, i + 1, AppendAll(d, PairEvents(df, i), 1))

analyze_student_interactions(df) == AnalyzeFrom(df, 1, <<>>)

RECURSIVE LogFrom(_, _)
LogFrom(df, i) ==
    IF i > Len(df) - 1 THEN <<>>
    ELSE [k \in DOMAIN PairEvents(df, i) |->
            [pair |-> i, source |-> PairEvents(df, i)[k].key,
             rec |-> PairEvents(df, i)[k].rec]] \o LogFrom(df, i + 1)


-----------------------------------------------------------------------------
(* Karte parsing: re.match(karte_pattern, line.strip()) per non-blank line.  *)
(* A line is a sequence of tokens; "#", ":" and " " are the characters the   *)
(* two built-in patterns look at, every other token is a word without them. *)

KartePatterns == {"hash", "colon"}

NameOfHashLine == <<"#", "Ito", " ", "kyou", "shuchu", "shiteita">>
OnlyKarteHashLine == <<"#", "Tanaka", " ", "tomodachi", "to", "hanasu">>
ColonLine == <<"Tanaka", ":", " ", "wasuremono", "chuui">>
FreeLine == <<"kyou", "no", "memo">>
KarteLines == {NameOfHashLine, OnlyKarteHashLine, ColonLine, FreeLine}

FirstIndex(line, tok) ==
    IF Contains(line, tok)
    THEN CHOOSE k \in DOMAIN line :
            line[k] = tok /\ \A j \in 1..(k - 1) : line[j] /= tok
    ELSE 0

(* The text left after a run of whitespace starting at position k. *)
RECURSIVE SkipSpaces(_, _)
SkipSpaces(line, k) ==
    IF k <= Len(line) /\ line[k] = " " THEN SkipSpaces(line, k + 1)
    ELSE SubSeq(line, k, Len(line))

(* A captured name of one token is that token; a name of several tokens is  *)
(* a string that is no speaker of the transcript.                           *)
JoinName(toks) == IF Len(toks) = 1 THEN toks[1] ELSE "joined name"

\* the pattern of the format "#name memo": "#", a name without whitespace,
\* whitespace, the note
MatchHash(line) ==
    LET k == FirstIndex(line, " ")
    IN  IF Len(line) >= 1 /\ line[1] = "#" /\ k >= 3
        THEN [ok |-> TRUE, student |-> JoinName(SubSeq(line, 2, k - 1)),
              note |-> SkipSpaces(line, k)]
        ELSE [ok |-> FALSE]

\* the pattern of the format "name: memo": a name without ":", ":",
\* optional whitespace, the note
MatchColon(line) ==
    LET k == FirstIndex(line, ":")
    IN  IF k >= 2
        THEN [ok |-> TRUE, student |-> JoinName(SubSeq(line, 1, k - 1)),
              note |-> SkipSpaces(line, k + 1)]
        ELSE [ok |-> FALSE]

Match(pattern, line) ==
    IF pattern = "hash" THEN MatchHash(line) ELSE MatchColon(line)

RECURSIVE ParseKarte(_, _)
ParseKarte(pattern, lines) ==
    IF lines = <<>> THEN <<>>
    ELSE LET m == Match(pattern, Head(lines))
         IN  (IF m.ok THEN <<[student |-> m.student, note |-> m.note]>> ELSE <<>>)
             \o ParseKarte(pattern, Tail(lines))

(* Series.unique(): the distinct values in order of first appearance. *)
RECURSIVE Unique(_)
Unique(s) ==
    IF s = <<>> THEN <<>>
    ELSE LET r == Unique(SubSeq(s, 1, Len(s) - 1))
             x == s[Len(s)]
         IN  IF x \in Range(r) THEN r ELSE Append(r, x)

IsStudentRow(row) == row.speaker /= Teacher
StudentRows(df) == SelectSeq(df, IsStudentRow)
Speakers(df) == [k \in DOMAIN df |-> df[k].speaker]

(* Lines 203-218.  pd.DataFrame([]) has no columns, so df_karte['..'] on a   *)
(* karte without a matching line raises KeyError and the script stops.      *)
ExtractStudents ==
    /\ pc = "uploaded"
    /\ LET rows == ParseKarte(karte_pattern, karte_lines)
           in_class == Unique(Speakers(StudentRows(df_class)))
       IN  /\ df_karte' = rows
           /\ students_in_class' = in_class
           /\ IF rows = <<>>
              THEN /\ err' = "KeyError"
                   /\ pc' = "error"
                   /\ all_students' = {}
              ELSE /\ err' = "none"
                   /\ pc' = "tabs"
                   /\ all_students' =
                        Range(in_class) \cup {rows[k].student : k \in DOMAIN rows}
    /\ UNCHANGED <<inputVars, tab1Vars, tab2Vars, tab3Vars, sessionVars>>

-----------------------------------------------------------------------------
(* Tab "relations between students": the interaction graph, lines 372-436.  *)

NoGraph == [built |-> FALSE, nodes |-> {}, edges |-> <<>>]

HasEdge(g, u, v) == {u, v} \in DOMAIN g.edges

(* nx.Graph.add_edge: the edge of an undirected graph is the unordered pair; *)
(* adding an edge that exists replaces the attributes given.                *)
AddEdge(g, u, v, attr) ==
    [g EXCEPT !.nodes = @ \cup {u, v},
              !.edges = [e \in (DOMAIN @) \cup {{u, v}} |->
                            IF e = {u, v} THEN attr ELSE @[e]]]

(* The update of an existing edge without the append to its types. *)
BumpWeightOnly(g, u, v, interaction_type) ==
    [g EXCEPT !.edges[{u, v}] = [@ EXCEPT !.weight = @ + 1]]

Bump(g, u, v, interaction_type) ==
    [g EXCEPT !.edges[{u, v}] =
        [weight |-> @.weight + 1, types |-> Append(@.types, interaction_type)]]

(* for student, student_interactions in interactions.items():               *)
(*     for interaction in student_interactions: ...                         *)
RECURSIVE Flatten(_)
Flatten(d) ==
    IF d = <<>> THEN <<>>
    ELSE [k \in DOMAIN Head(d).list |->
            [student |-> Head(d).student, rec |-> Head(d).list[k]]]
         \o Flatten(Tail(d))

Fold(g, student, interaction) ==
    LET target == interaction.target
        interaction_type == interaction.type
    IN  IF HasEdge(g, student, target)
        THEN Bump(g, student, target, interaction_type)
        ELSE AddEdge(g, student, target,
                     [weight |-> 1, types |-> <<interaction_type>>])

(* Nodes only ever created by add_edge. *)
GraphNodesFromEdgesOnly(students) == {}

(* for student in students_in_class: G.add_node(student) *)
GraphNodes(students) == Range(students)

Analyze ==
    /\ pc = "tabs" /\ pc1 = "analyze"
    /\ interactions' = analyze_student_interactions(df_class)
    /\ event_log' = LogFrom(df_class, 1)
    /\ pc1' = "graph"
    /\ UNCHANGED <<inputVars, parseVars, G, fold_pos, tab2Vars, tab3Vars,
                   sessionVars>>

(* if interactions: G = nx.Graph(); for student in students_in_class: ...   *)
BuildNodes ==
    /\ pc = "tabs" /\ pc1 = "graph"
    /\ interactions /= <<>>
    /\ G' = [built |-> TRUE, nodes |-> GraphNodes(students_in_class),
             edges |-> <<>>]
    /\ pc1' = "fold"
    /\ UNCHANGED <<inputVars, parseVars, interactions, event_log, fold_pos,
                   tab2Vars, tab3Vars, sessionVars>>

(* else: st.info(...) - no graph is built *)
NoInteractions ==
    /\ pc = "tabs" /\ pc1 = "graph"
    /\ interactions = <<>>
    /\ pc1' = "done"
    /\ UNCHANGED <<inputVars, parseVars, interactions, event_log, G, fold_pos,
                   tab2Vars, tab3Vars, sessionVars>>

FoldEvent ==
    /\ pc = "tabs" /\ pc1 = "fold"
    /\ LET flat == Flatten(interactions)
       IN  /\ fold_pos < Len(flat)
           /\ G' = Fold(G, flat[fold_pos + 1].student, flat[fold_pos + 1].rec)
           /\ fold_pos' = fold_pos + 1
           /\ pc1' = IF fold_pos + 1 = Len(flat) THEN "done" ELSE "fold"
    /\ UNCHANGED <<inputVars, parseVars, interactions, event_log, tab2Vars,
                   tab3Vars, sessionVars>>

-----------------------------------------------------------------------------
(* Initial values of everything the script computes. *)

InitComputed ==
    /\ pc = "uploaded" /\ err = "none"
    /\ df_karte = <<>> /\ students_in_class = <<>> /\ all_students = {}
    /\ pc1 = "analyze" /\ interactions = <<>> /\ event_log = <<>>
    /\ G = NoGraph /\ fold_pos = 0
    /\ pc2 = "runs" /\ max_teacher_sequence = 0 /\ long_run_warning = FALSE
    /\ pc3 = "class" /\ silent_students = <<>> /\ suggestions = <<>>
    /\ suggestion_student = "" /\ individual_suggestions = <<>>

InitSession ==
    /\ selected_student = "" /\ relationships = <<>> /\ karte_page = 0
    /\ clock = 0 /\ last_op = [op |-> "none"]

Utterances ==
    {[speaker |-> Teacher, content |-> PlainContent]} \cup
    [speaker : Students, content : StudentContents]

(* Interaction analysis of every transcript of at most MaxLen utterances. *)
Init ==
    /\ df_class \in SeqsUpTo(Utterances, MaxLen)
    /\ karte_pattern = "hash"
    /\ karte_lines = <<NameOfHashLine, OnlyKarteHashLine>>
    /\ InitComputed /\ InitSession

Next == ExtractStudents \/ Analyze \/ BuildNodes \/ NoInteractions \/ FoldEvent

Spec == Init /\ [][Next]_vars


-----------------------------------------------------------------------------
(* Properties of the interaction analysis, checked under Spec *)

NonTeacherSpeakers ==
    {df_class[k].speaker : k \in {j \in DOMAIN df_class :
                                     df_class[j].speaker /= Teacher}}

Analyzed == pc = "tabs" /\ pc1 \in {"graph", "fold", "done"}

LogOfPair(i) == SelectSeq(event_log, LAMBDA e : e.pair = i)

Endpoints(e) == {e.source, e.rec.target}

HasTrigger(content, words) == Range(content) \cap Range(words) /= {}

StudentPair(i) ==
    df_class[i].speaker /= Teacher /\ df_class[i + 1].speaker /= Teacher

Pairs == 1..(Len(df_class) - 1)

(* C3 as stated: whenever the interaction tab has run, a graph exists with  *)
(* exactly one node per non-teacher speaker, events or no events.           *)
C3_NodesEvenWithoutEvents ==
    (pc = "tabs" /\ pc1 = "done") =>
        (G.built /\ G.nodes = NonTeacherSpeakers)

(* C3 amended: when the transcript yields at least one interaction event,   *)
(* the graph has exactly one node per non-teacher speaker, students that    *)
(* take part in no event included; when it yields none, no graph is built.  *)
C3_GraphNodes ==
    /\ (pc = "tabs" /\ pc1 \in {"fold", "done"} /\ event_log /= <<>>) =>
            (G.built /\ G.nodes = NonTeacherSpeakers)
    /\ (pc = "tabs" /\ pc1 = "done" /\ event_log = <<>>) => ~G.built

C3_Witness ==
    /\ pc = "tabs" /\ pc1 = "done" /\ G.built
    /\ \E s \in G.nodes : \A e \in DOMAIN G.edges : s \notin e

FoldedEvents == SubSeq(Flatten(interactions), 1, fold_pos)

(* C5: every edge of the graph has weight = len(types) = the number of      *)
(* events folded so far whose {source, target} is the edge, after each      *)
(* fold; once all are folded that is the number of detected events of the   *)
(* pair, in either direction, self-pairs included.                          *)
C5_EdgeWeight ==
    G.built =>
        \A e \in DOMAIN G.edges :
            /\ G.edges[e].weight = Len(G.edges[e].types)
            /\ G.edges[e].weight =
                 Cardinality({k \in 1..fold_pos :
                    {FoldedEvents[k].student, FoldedEvents[k].rec.target} = e})
            /\ pc1 = "done" =>
                 G.edges[e].weight =
                    Cardinality({k \in DOMAIN event_log :
                                    Endpoints(event_log[k]) = e})

C5_Witness ==
    /\ pc1 = "done" /\ G.built
    /\ \E a \in Students, b \in Students :
        /\ a /= b
        /\ {a, b} \in DOMAIN G.edges /\ G.edges[{a, b}].weight >= 2
        /\ \E j, k \in DOMAIN event_log :
            /\ event_log[j].source = a /\ event_log[j].rec.target = b
            /\ event_log[k].source = b /\ event_log[k].rec.target = a
    /\ \E a \in Students : {a} \in DOMAIN G.edges /\ G.edges[{a}].weight >= 2

ExampleTranscript ==
    <<[speaker |-> Teacher, content |-> PlainContent],
      [speaker |-> "Ito", content |-> QuestionContent],
      [speaker |-> "Suzuki", content |-> AgreeContent]>>

(* C6: an adjacent pair of distinct students whose first utterance has a    *)
(* question trigger and whose second has an agreement trigger emits exactly *)
(* a question event a -> b (content u[i], response u[i+1]) and an agreement *)
(* event b -> a, both aggregated onto the one edge a-b; the example         *)
(* transcript gives one edge of weight 2 with types question, agreement.    *)
C6_QuestionAndAgreement ==
    Analyzed =>
        /\ \A i \in Pairs :
            (/\ StudentPair(i)
             /\ df_class[i].speaker /= df_class[i + 1].speaker
             /\ HasTrigger(df_class[i].content, QuestionWords)
             /\ HasTrigger(df_class[i + 1].content, AgreeWords)) =>
                /\ LogOfPair(i) =
                    <<[pair |-> i, source |-> df_class[i].speaker,
                       rec |-> [type |-> "question",
                                target |-> df_class[i + 1].speaker,
                                content |-> df_class[i].content,
                                response |-> df_class[i + 1].content]],
                      [pair |-> i, source |-> df_class[i + 1].speaker,
                       rec |-> [type |-> "agreement",
                                target |-> df_class[i].speaker,
                                content |-> df_class[i + 1].content]]>>
                /\ pc1 = "done" =>
                    LET e == {df_class[i].speaker, df_class[i + 1].speaker}
                    IN  /\ e \in DOMAIN G.edges
                        /\ G.edges[e].weight >= 2
                        /\ {"question", "agreement"} \subseteq
                                Range(G.edges[e].types)
        /\ (df_class = ExampleTranscript /\ pc1 = "done") =>
                /\ DOMAIN G.edges = {{"Ito", "Suzuki"}}
                /\ G.edges[{"Ito", "Suzuki"}] =
                        [weight |-> 2, types |-> <<"question", "agreement">>]

C6_Witness ==
    pc = "tabs" /\ pc1 = "done" /\ df_class = ExampleTranscript /\ G.built

StanceOfPair(i) ==
    SelectSeq(event_log,
              LAMBDA e : e.pair = i /\ e.rec.type \in {"agreement", "disagreement"})

(* C7: a pair emits at most one of agreement / disagreement; a second       *)
(* utterance with both triggers gives exactly one agreement and no          *)
(* disagreement; a disagreement is emitted only for a second utterance with *)
(* a disagreement trigger and no agreement trigger.                         *)
C7_AgreementFirst ==
    Analyzed =>
        \A i \in Pairs :
            LET next_content == df_class[i + 1].content
                agree == HasTrigger(next_content, AgreeWords)
                disagree == HasTrigger(next_content, DisagreeWords)
            IN  /\ Len(StanceOfPair(i)) <= 1
                /\ (StudentPair(i) /\ agree) =>
                        (/\ Len(StanceOfPair(i)) = 1
                         /\ StanceOfPair(i)[1].rec.type = "agreement")
                /\ (\E k \in DOMAIN StanceOfPair(i) :
                        StanceOfPair(i)[k].rec.type = "disagreement")
                    <=> (StudentPair(i) /\ disagree /\ ~agree)

C7_Witness ==
    /\ Analyzed
    /\ \E i \in Pairs :
        /\ StudentPair(i) /\ df_class[i + 1].content = BothContent
        /\ Len(StanceOfPair(i)) = 1
    /\ \E i \in Pairs :
        /\ Len(StanceOfPair(i)) = 1
        /\ StanceOfPair(i)[1].rec.type = "disagreement"

TeacherBetween ==
    /\ Len(df_class) = 4
    /\ df_class[1].speaker = Teacher /\ df_class[2].speaker = "Ito"
    /\ df_class[3].speaker = Teacher /\ df_class[4].speaker = "Suzuki"

(* C8: a pair with the teacher on either side emits nothing, so every event *)
(* has a source and a target that are non-teacher speakers of the           *)
(* transcript; speakers [teacher, A, teacher, B] and transcripts of fewer   *)
(* than 2 utterances give no event at all.                                  *)
C8_NoTeacherEvent ==
    Analyzed =>
        /\ \A i \in Pairs : ~StudentPair(i) => LogOfPair(i) = <<>>
        /\ \A k \in DOMAIN event_log :
                Endpoints(event_log[k]) \subseteq NonTeacherSpeakers
        /\ \A j \in DOMAIN interactions :
            /\ interactions[j].student \in NonTeacherSpeakers
            /\ \A k \in DOMAIN interactions[j].list :
                    interactions[j].list[k].target \in NonTeacherSpeakers
        /\ Len(Flatten(interactions)) = Len(event_log)
        /\ \A k \in DOMAIN event_log :
                [student |-> event_log[k].source, rec |-> event_log[k].rec]
                    \in Range(Flatten(interactions))
        /\ TeacherBetween => (event_log = <<>> /\ interactions = <<>>)
        /\ Len(df_class) < 2 => (event_log = <<>> /\ interactions = <<>>)

C8_Witness ==
    /\ Analyzed /\ TeacherBetween
    /\ df_class[2].content = QuestionContent
    /\ df_class[4].content = AgreeContent
    /\ event_log = <<>> /\ interactions = <<>>

-----------------------------------------------------------------------------
(* Runs of consecutive teacher utterances: the loop of lines 531-537 and of *)
(* lines 614-620.  The state of the loop after the rows of df.              *)

RECURSIVE ScanRuns(_)
ScanRuns(df) ==
    IF df = <<>> THEN [teacher_sequences |-> <<>>, current_sequence |-> 0]
    ELSE LET before == ScanRuns(SubSeq(df, 1, Len(df) - 1))
             row == df[Len(df)]
         IN  IF row.speaker = Teacher
             THEN [before EXCEPT !.current_sequence = @ + 1]
             ELSE [teacher_sequences |->
                        IF before.current_sequence > 0
                        THEN Append(before.teacher_sequences,
                                    before.current_sequence)
                        ELSE before.teacher_sequences,
                   current_sequence |-> 0]

(* Whole-class tab: the loop, then the run still open at the end is added. *)
TeacherSequencesWholeClass(df) ==
    LET after == ScanRuns(df)
    IN  IF after.current_sequence > 0
        THEN Append(after.teacher_sequences, after.current_sequence)
        ELSE after.teacher_sequences

(* Suggestion tab: the loop only. *)
TeacherSequencesSuggestion(df) == ScanRuns(df).teacher_sequences

MaxOf(s) == CHOOSE m \in Range(s) : \A x \in Range(s) : x <= m

LongRun == 5

(* Lines 527-553. *)
WholeClassAnalysis ==
    /\ pc = "tabs" /\ pc2 = "runs"
    /\ LET teacher_sequences == TeacherSequencesWholeClass(df_class)
       IN  IF teacher_sequences /= <<>>
           THEN /\ max_teacher_sequence' = MaxOf(teacher_sequences)
                /\ long_run_warning' = (MaxOf(teacher_sequences) > LongRun)
           ELSE UNCHANGED <<max_teacher_sequence, long_run_warning>>
    /\ pc2' = "done"
    /\ UNCHANGED <<inputVars, parseVars, tab1Vars, tab3Vars, sessionVars>>

-----------------------------------------------------------------------------
(* Suggestion tab, class level: lines 587-627. *)

CountOf(df, name) == Cardinality({k \in DOMAIN df : df[k].speaker = name})

(* value_counts() of the non-teacher speakers: its index holds the speakers *)
(* that have at least one utterance.                                        *)
ParticipationIndex(df) == Range(Speakers(StudentRows(df)))

(* [s for s in students_in_class if s not in student_participation.index] *)
SilentStudents(df, in_class) ==
    SelectSeq(in_class, LAMBDA s : s \notin ParticipationIndex(df))

RECURSIVE SumOver(_, _)
SumOver(S, f) ==
    IF S = {} THEN 0
    ELSE LET x == CHOOSE y \in S : TRUE
         IN  f[x] + SumOver(S \ {x}, f)

StdLimit == 3

(* student_participation.std() > 3: the sample standard deviation (n - 1   *)
(* in the denominator) of the counts; NaN, hence not > 3, for one student. *)
(* std > 3  iff  n * sum(x^2) - sum(x)^2 > 3^2 * n * (n - 1).              *)
UnevenParticipation(df) ==
    LET idx == ParticipationIndex(df)
        n == Cardinality(idx)
        cnt == [s \in idx |-> CountOf(df, s)]
        sq == [s \in idx |-> CountOf(df, s) * CountOf(df, s)]
    IN  /\ n >= 2
        /\ n * SumOver(idx, sq) - SumOver(idx, cnt) * SumOver(idx, cnt)
              > StdLimit * StdLimit * n * (n - 1)

ClassLevel(df, in_class) ==
    LET silent == SilentStudents(df, in_class)
        sequences == TeacherSequencesSuggestion(df)
    IN  (IF Len(silent) > 0
         THEN <<[category |-> "sanka sokushin", priority |-> "high",
                 about |-> silent]>>
         ELSE <<>>)
        \o (IF ParticipationIndex(df) /= {} /\ UnevenParticipation(df)
            THEN <<[category |-> "hatsugen chousei", priority |-> "medium",
                    about |-> <<>>]>>
            ELSE <<>>)
        \o (IF sequences /= <<>> /\ MaxOf(sequences) > LongRun
            THEN <<[category |-> "jugyou kousei", priority |-> "medium",
                    about |-> <<>>]>>
            ELSE <<>>)

ClassSuggestions ==
    /\ pc = "tabs" /\ pc3 = "class"
    /\ silent_students' = SilentStudents(df_class, students_in_class)
    /\ suggestions' = ClassLevel(df_class, students_in_class)
    /\ pc3' = "done"
    /\ UNCHANGED <<inputVars, parseVars, tab1Vars, tab2Vars,
                   suggestion_student, individual_suggestions, sessionVars>>

-----------------------------------------------------------------------------
(* generate_teaching_suggestions, lines 118-180. *)

attention_keywords == <<"shuchu", "chuui", "sawagu", "tachiaruku", "wasuremono">>
support_keywords == <<"rikai", "komaru", "wakaranai", "shitsumon">>
social_keywords == <<"tomodachi", "nakayoshi", "tairitsu", "koritsu">>

(* The text of the latest note alone. *)
JoinNotesLast(rows) ==
    IF rows = <<>> THEN <<>> ELSE rows[Len(rows)].note

(* ' '.join(student_karte['memo']) *)
RECURSIVE JoinNotes(_)
JoinNotes(rows) ==
    IF rows = <<>> THEN <<>>
    ELSE IF Len(rows) = 1 THEN rows[1].note
    ELSE rows[1].note \o <<" ">> \o JoinNotes(Tail(rows))

KarteOf(karte, student_name) ==
    SelectSeq(karte, LAMBDA row : row.student = student_name)

(* One suggestion per keyword of the list found in the text, list order. *)
RECURSIVE KeywordSuggestions(_, _, _, _, _)
KeywordSuggestions(keywords, text, category, priority, student_name) ==
    IF keywords = <<>> THEN <<>>
    ELSE (IF Contains(text, Head(keywords))
          THEN <<[category |-> category, priority |-> priority,
                  about |-> IF category = "koudou shien"
                            THEN <<student_name, Head(keywords)>>
                            ELSE <<student_name>>]>>
          ELSE <<>>)
         \o KeywordSuggestions(Tail(keywords), text, category, priority,
                               student_name)

(* The comparison written <= in place of <. *)
RateAtMostTenth(statement_count, total_statements) ==
    10 * statement_count <= total_statements

(* participation_rate < 0.1 and participation_rate > 0.3 for the quotient   *)
(* statement_count / total_statements of two integers, total > 0: the       *)
(* correctly rounded quotient compares with the literal as the exact one.  *)

RateBelowTenth(statement_count, total_statements) ==
    10 * statement_count < total_statements

RateAboveThreeTenths(statement_count, total_statements) ==
    10 * statement_count > 3 * total_statements

ParticipationSuggestions(df, student_name) ==
    LET statement_count == CountOf(df, student_name)
        total_statements == Len(StudentRows(df))
    IN  IF total_statements > 0
        THEN IF RateBelowTenth(statement_count, total_statements)
             THEN <<[category |-> "sanka sokushin", priority |-> "high",
                     about |-> <<student_name>>]>>
             ELSE IF RateAboveThreeTenths(statement_count, total_statements)
             THEN <<[category |-> "hatsugen chousei", priority |-> "medium",
                     about |-> <<student_name>>]>>
             ELSE <<>>
        ELSE <<>>

KarteSuggestions(karte, student_name) ==
    LET student_karte == KarteOf(karte, student_name)
        karte_text == JoinNotes(student_karte)
    IN  IF Len(student_karte) > 0
        THEN KeywordSuggestions(attention_keywords, karte_text,
                                "koudou shien", "high", student_name)
             \o KeywordSuggestions(support_keywords, karte_text,
                                   "gakushuu shien", "high", student_name)
             \o KeywordSuggestions(social_keywords, karte_text,
                                   "ningen kankei", "medium", student_name)
        ELSE <<>>

generate_teaching_suggestions(df, karte, student_name) ==
    ParticipationSuggestions(df, student_name)
    \o KarteSuggestions(karte, student_name)

(* Lines 653-660: the selectbox over all_students and the call. *)
IndividualSuggestions(s) ==
    /\ pc = "tabs"
    /\ s \in all_students
    /\ s /= suggestion_student
    /\ suggestion_student' = s
    /\ individual_suggestions' =
            generate_teaching_suggestions(df_class, df_karte, s)
    /\ UNCHANGED <<inputVars, parseVars, tab1Vars, tab2Vars, pc3,
                   silent_students, suggestions, sessionVars>>

-----------------------------------------------------------------------------
(* Specifications of the class-level tabs *)

MaxRunLen == 6         \* transcript length, teacher-run specification
MaxKarteLen == 3       \* transcript length, karte specification
MaxKarteLines == 2     \* lines of the karte text, karte specification
MaxPartLen == 10       \* transcript length, participation specification

PlainUtterances == [speaker : {Teacher} \cup Students, content : {PlainContent}]

(* Teacher runs: transcripts of plain utterances, a karte that parses. *)
InitRuns ==
    /\ df_class \in SeqsUpTo(PlainUtterances, MaxRunLen)
    /\ karte_pattern = "hash"
    /\ karte_lines = <<NameOfHashLine, OnlyKarteHashLine>>
    /\ InitComputed /\ InitSession

NextRuns == ExtractStudents \/ WholeClassAnalysis \/ ClassSuggestions

SpecRuns == InitRuns /\ [][NextRuns]_vars

(* Every karte text of at most MaxKarteLines lines under both formats. *)
InitKarte ==
    /\ df_class \in SeqsUpTo(PlainUtterances, MaxKarteLen)
    /\ karte_pattern \in KartePatterns
    /\ karte_lines \in SeqsUpTo(KarteLines, MaxKarteLines)
    /\ InitComputed /\ InitSession

NextKarte ==
    \/ ExtractStudents
    \/ ClassSuggestions
    \/ \E s \in Students \cup {KarteOnly} : IndividualSuggestions(s)

SpecKarte == InitKarte /\ [][NextKarte]_vars

(* Participation rates: long transcripts, one karte-only student. *)
InitPart ==
    /\ df_class \in SeqsUpTo(PlainUtterances, MaxPartLen)
    /\ karte_pattern = "hash"
    /\ karte_lines = <<OnlyKarteHashLine>>
    /\ InitComputed /\ InitSession

NextPart ==
    \/ ExtractStudents
    \/ \E s \in Students \cup {KarteOnly} : IndividualSuggestions(s)

SpecPart == InitPart /\ [][NextPart]_vars

-----------------------------------------------------------------------------
(* Properties of the class-level tabs *)

Utterances_of(s) == Cardinality({k \in DOMAIN df_class : df_class[k].speaker = s})

TotalStudentUtterances ==
    Cardinality({k \in DOMAIN df_class : df_class[k].speaker /= Teacher})

KnownStudents ==
    NonTeacherSpeakers \cup {df_karte[k].student : k \in DOMAIN df_karte}

ZeroUtteranceStudents == {s \in KnownStudents : Utterances_of(s) = 0}

PromoteSuggested ==
    \E k \in DOMAIN suggestions :
        /\ suggestions[k].category = "sanka sokushin"
        /\ suggestions[k].priority = "high"
        /\ Range(suggestions[k].about) = ZeroUtteranceStudents

(* C1: silent_students is exactly the set of known students (speakers and   *)
(* karte-only students, teacher excluded) with zero utterances, and the     *)
(* high-priority participation suggestion naming them is emitted whenever   *)
(* that set is non-empty.                                                   *)
C1_SilentStudents ==
    (pc = "tabs" /\ pc3 = "done") =>
        /\ Range(silent_students) = ZeroUtteranceStudents
        /\ ZeroUtteranceStudents /= {} => PromoteSuggested

AllTeacher(a, b) == \A k \in a..b : df_class[k].speaker = Teacher

(* The longest run of consecutive teacher utterances, 0 when there is none. *)
LongestTeacherRun ==
    LET runs == {p \in (DOMAIN df_class) \X (DOMAIN df_class) :
                    p[1] <= p[2] /\ AllTeacher(p[1], p[2])}
        lens == {0} \cup {p[2] - p[1] + 1 : p \in runs}
    IN  CHOOSE m \in lens : \A x \in lens : x <= m

DialogueSuggested ==
    \E k \in DOMAIN suggestions :
        /\ suggestions[k].category = "jugyou kousei"
        /\ suggestions[k].priority = "medium"

(* C2: the 'increase dialogue' suggestion is emitted iff the longest run of *)
(* consecutive teacher utterances, a run at the end of the transcript       *)
(* included, is > 5, in agreement with the whole-class analysis.            *)
C2_DialogueSuggestion ==
    (pc = "tabs" /\ pc3 = "done") =>
        /\ DialogueSuggested <=> (LongestTeacherRun > 5)
        /\ pc2 = "done" =>
            /\ max_teacher_sequence = LongestTeacherRun
            /\ DialogueSuggested <=> long_run_warning

(* C4: computing the student set and the suggestions never ends in an       *)
(* error state, whatever the karte log, a log without a matching line       *)
(* included.                                                                *)
C4_NeverRaises == err = "none" /\ pc /= "error"

StudentChosen == pc = "tabs" /\ suggestion_student /= ""

EncourageSuggested ==
    \E k \in DOMAIN individual_suggestions :
        /\ individual_suggestions[k].category = "sanka sokushin"
        /\ individual_suggestions[k].priority = "high"

DelegateSuggested ==
    \E k \in DOMAIN individual_suggestions :
        /\ individual_suggestions[k].category = "hatsugen chousei"
        /\ individual_suggestions[k].priority = "medium"

(* C9 as stated: with the rate count / total, taken as 0 when the total is  *)
(* 0, 'encourage participation' is emitted iff rate < 0.10 and 'delegate'   *)
(* iff rate > 0.30; so a student is flagged when the total is 0.            *)
C9_RateZeroWhenNoTotal ==
    StudentChosen =>
        LET count == Utterances_of(suggestion_student)
            total == TotalStudentUtterances
        IN  /\ EncourageSuggested <=> (total = 0 \/ 10 * count < total)
            /\ DelegateSuggested <=> (total > 0 /\ 10 * count > 3 * total)

(* C9 amended: when the total of non-teacher utterances is > 0,             *)
(* 'encourage participation' is emitted iff count / total < 0.10 and        *)
(* 'delegate' iff count / total > 0.30, never both and neither at exactly   *)
(* 0.10 or 0.30; when the total is 0 neither is emitted.                    *)
C9_ParticipationThresholds ==
    StudentChosen =>
        LET count == Utterances_of(suggestion_student)
            total == TotalStudentUtterances
        IN  /\ total > 0 =>
                /\ EncourageSuggested <=> (10 * count < total)
                /\ DelegateSuggested <=> (10 * count > 3 * total)
            /\ total = 0 => (~EncourageSuggested /\ ~DelegateSuggested)
            /\ ~(EncourageSuggested /\ DelegateSuggested)
            /\ (total > 0 /\ count = 0) => EncourageSuggested

C9_Witness ==
    /\ StudentChosen
    /\ TotalStudentUtterances = 10
    /\ Utterances_of(suggestion_student) = 1
    /\ ~EncourageSuggested /\ ~DelegateSuggested

-----------------------------------------------------------------------------
(* Individual tab: the session handlers of lines 225-363.  Every widget     *)
(* event reruns the script; a handler is the rerun it causes.               *)

MaxRecords == 3        \* relationship records in the store
MaxClock == 1          \* minutes the session lasts

relationship_types ==
    <<"nakayoshi", "tairitsu", "iken ga onaji", "oshieai", "kyousou kankei",
      "sonota">>
ChosenTypes == {relationship_types[1], relationship_types[2]}

KarteCount(s) == Len(KarteOf(df_karte, s))

(* student_karte.iloc[current_page], line 260: IndexError past the end. *)
RenderError(s, page) ==
    IF s /= "" /\ KarteCount(s) > 0 /\ page >= KarteCount(s)
    THEN "IndexError" ELSE "none"

Min2(a, b) == IF a <= b THEN a ELSE b
Max2(a, b) == IF a >= b THEN a ELSE b

(* st.selectbox over all_students, line 225 *)
SelectStudent(s) ==
    /\ pc = "tabs"
    /\ s \in all_students /\ s /= selected_student
    /\ selected_student' = s
    /\ err' = RenderError(s, karte_page)
    /\ last_op' = [op |-> "select", owner |-> s]
    /\ UNCHANGED <<inputVars, pc, df_karte, students_in_class, all_students,
                   tab1Vars, tab2Vars, tab3Vars, relationships, karte_page,
                   clock>>

(* The "previous" button, lines 247-249 *)
PrevPage ==
    /\ pc = "tabs" /\ selected_student /= ""
    /\ KarteCount(selected_student) > 0
    /\ karte_page /= 0
    /\ karte_page' = Max2(0, karte_page - 1)
    /\ err' = RenderError(selected_student, karte_page')
    /\ last_op' = [op |-> "prev", owner |-> selected_student]
    /\ UNCHANGED <<inputVars, pc, df_karte, students_in_class, all_students,
                   tab1Vars, tab2Vars, tab3Vars, selected_student,
                   relationships, clock>>

(* The "next" button, lines 255-257 *)
NextPage ==
    /\ pc = "tabs" /\ selected_student /= ""
    /\ KarteCount(selected_student) > 0
    /\ karte_page /= KarteCount(selected_student) - 1
    /\ karte_page' = Min2(KarteCount(selected_student) - 1, karte_page + 1)
    /\ err' = RenderError(selected_student, karte_page')
    /\ last_op' = [op |-> "next", owner |-> selected_student]
    /\ UNCHANGED <<inputVars, pc, df_karte, students_in_class, all_students,
                   tab1Vars, tab2Vars, tab3Vars, selected_student,
                   relationships, clock>>

(* The options of the target selectbox, line 330; st.selectbox returns     *)
(* None when it has no option.                                              *)
TargetOptions(s) == all_students \ {s}
TargetChoices(s) == IF TargetOptions(s) = {} THEN {"None"} ELSE TargetOptions(s)

RecordCount(rels) ==
    SumOver(DOMAIN rels, [o \in DOMAIN rels |-> Len(rels[o])])

ListOf(rels, owner) == IF owner \in DOMAIN rels THEN rels[owner] ELSE <<>>

(* The append mirrored under the target, as for a symmetric relation. *)
StoreAppendSymmetric(rels, owner, rec) ==
    [o \in (DOMAIN rels) \cup {owner, rec.target} |->
        IF o = owner THEN Append(ListOf(rels, owner), rec)
        ELSE IF o = rec.target
        THEN Append(ListOf(rels, o), [rec EXCEPT !.target = owner])
        ELSE rels[o]]

(* Lines 343-350: the owner's list is created when missing, then appended *)
StoreAppend(rels, owner, rec) ==
    [o \in (DOMAIN rels) \cup {owner} |->
        IF o = owner THEN Append(ListOf(rels, owner), rec) ELSE rels[o]]

(* list.pop() without its index: the last record goes. *)
ListPopLast(list, i) == SubSeq(list, 1, Len(list) - 1)

(* list.pop(i), i counted from 0 *)
ListPop(list, i) == SubSeq(list, 1, i) \o SubSeq(list, i + 2, Len(list))

(* The "record" button, lines 342-351 *)
AddRelationship(target_student, relationship_type) ==
    /\ pc = "tabs" /\ selected_student /= "" /\ err = "none"
    /\ target_student \in TargetChoices(selected_student)
    /\ RecordCount(relationships) < MaxRecords
    /\ relationships' =
            StoreAppend(relationships, selected_student,
                        [target |-> target_student,
                         type |-> relationship_type,
                         timestamp |-> clock])
    /\ last_op' = [op |-> "add", owner |-> selected_student,
                   target |-> target_student, type |-> relationship_type]
    /\ UNCHANGED <<inputVars, parseVars, tab1Vars, tab2Vars, tab3Vars,
                   selected_student, karte_page, clock>>

(* The loop with the click applied to the last record when its own button  *)
(* is not among those shown.                                                *)
DeleteLoopClamped(rels, owner, i) ==
    IF owner \in DOMAIN rels /\ Len(rels[owner]) > 0
    THEN [rels EXCEPT ![owner] = ListPop(@, Min2(i, Len(@) - 1))]
    ELSE rels

(* Lines 354-363 for a click on the button with key del_<owner>_<i>: the    *)
(* loop shows one button per record of the owner's list, and only a button  *)
(* that is shown can answer the click.                                      *)
DeleteLoop(rels, owner, i) ==
    IF owner \in DOMAIN rels /\ i \in 0..(Len(rels[owner]) - 1)
    THEN [rels EXCEPT ![owner] = ListPop(@, i)]
    ELSE rels

(* The "delete" button of the i-th record shown, lines 354-363 *)
DeleteRelationship(i) ==
    /\ pc = "tabs" /\ selected_student /= "" /\ err = "none"
    /\ selected_student \in DOMAIN relationships
    /\ i \in 0..(Len(relationships[selected_student]) - 1)
    /\ relationships' = DeleteLoop(relationships, selected_student, i)
    /\ last_op' = [op |-> "delete", owner |-> selected_student, index |-> i]
    /\ UNCHANGED <<inputVars, parseVars, tab1Vars, tab2Vars, tab3Vars,
                   selected_student, karte_page, clock>>

(* A click on a delete button whose index the owner's list no longer has   *)
(* (a click sent twice, a click that arrives after the list shrank): the    *)
(* rerun shows no button with that key.                                     *)
StaleDelete(i) ==
    /\ pc = "tabs" /\ selected_student /= "" /\ err = "none"
    /\ i \notin 0..(Len(ListOf(relationships, selected_student)) - 1)
    /\ relationships' = DeleteLoop(relationships, selected_student, i)
    /\ last_op' = [op |-> "stale delete", owner |-> selected_student,
                   index |-> i]
    /\ UNCHANGED <<inputVars, parseVars, tab1Vars, tab2Vars, tab3Vars,
                   selected_student, karte_page, clock>>

(* datetime.now() moves on between two reruns. *)
Tick ==
    /\ pc = "tabs"
    /\ clock < MaxClock
    /\ clock' = clock + 1
    /\ last_op' = [op |-> "tick"]
    /\ UNCHANGED <<inputVars, parseVars, tab1Vars, tab2Vars, tab3Vars,
                   selected_student, relationships, karte_page>>

OneUtterance == {<<>>} \cup {<<u>> : u \in PlainUtterances}

(* A session over a class of one to three known students. *)
InitStore ==
    /\ df_class \in OneUtterance
    /\ karte_pattern = "hash"
    /\ karte_lines \in {<<NameOfHashLine>>,
                        <<NameOfHashLine, OnlyKarteHashLine, NameOfHashLine>>}
    /\ InitComputed /\ InitSession

NextStore ==
    \/ ExtractStudents
    \/ \E s \in Students \cup {KarteOnly} : SelectStudent(s)
    \/ \E t \in Students \cup {KarteOnly, "None"}, ty \in ChosenTypes :
            AddRelationship(t, ty)
    \/ \E i \in 0..(MaxRecords - 1) : DeleteRelationship(i)
    \/ Tick

SpecStore == InitStore /\ [][NextStore]_vars

(* The same session within one minute, with clicks on delete buttons that  *)
(* are no longer shown.                                                     *)
NextEdits ==
    \/ ExtractStudents
    \/ \E s \in Students \cup {KarteOnly} : SelectStudent(s)
    \/ \E t \in Students \cup {KarteOnly, "None"}, ty \in ChosenTypes :
            AddRelationship(t, ty)
    \/ \E i \in 0..(MaxRecords - 1) : DeleteRelationship(i)
    \/ \E i \in 0..MaxRecords : StaleDelete(i)

SpecEdits == InitStore /\ [][NextEdits]_vars

(* The karte pages of the selected student. *)
NextPages ==
    \/ ExtractStudents
    \/ \E s \in Students \cup {KarteOnly} : SelectStudent(s)
    \/ PrevPage
    \/ NextPage

MaxPageLines == 3      \* lines of the karte text, paging specification

(* Every karte of at most MaxPageLines lines of the two students' lines. *)
InitPages ==
    /\ df_class \in OneUtterance
    /\ karte_pattern = "hash"
    /\ karte_lines \in SeqsUpTo({NameOfHashLine, OnlyKarteHashLine},
                                MaxPageLines) \ {<<>>}
    /\ InitComputed /\ InitSession

SpecPages == InitPages /\ [][NextPages]_vars

(* C10: add(owner, target, type) makes the record with that target and     *)
(* type the last element of list(owner), the earlier records unchanged and  *)
(* in order; remove(owner, i) at a valid index shrinks list(owner) by one,  *)
(* removing exactly the i-th record and keeping the order of the others.    *)
C10_RoundTrip ==
    [][
        /\ last_op'.op = "add" =>
            LET old == ListOf(relationships, last_op'.owner)
                new == ListOf(relationships', last_op'.owner)
            IN  /\ Len(new) = Len(old) + 1
                /\ SubSeq(new, 1, Len(old)) = old
                /\ new[Len(new)].target = last_op'.target
                /\ new[Len(new)].type = last_op'.type
        /\ last_op'.op = "delete" =>
            LET old == ListOf(relationships, last_op'.owner)
                new == ListOf(relationships', last_op'.owner)
                i == last_op'.index
            IN  /\ i \in 0..(Len(old) - 1)
                /\ Len(new) = Len(old) - 1
                /\ \A k \in 1..Len(new) :
                        new[k] = IF k <= i THEN old[k] ELSE old[k + 1]
    ]_vars

C10_Witness ==
    /\ last_op.op = "delete" /\ last_op.index = 1
    /\ Len(ListOf(relationships, last_op.owner)) = 2
    /\ ListOf(relationships, last_op.owner)[1]
            /= ListOf(relationships, last_op.owner)[2]

(* C11: remove(owner, index) with an index outside 0..len(list(owner))-1   *)
(* leaves the whole store unchanged and raises nothing, in every state      *)
(* reached by adds and removes.                                             *)
C11_OutOfRangeNoOp ==
    [][
        (/\ last_op'.op \in {"delete", "stale delete"}
         /\ last_op'.index \notin
                0..(Len(ListOf(relationships, last_op'.owner)) - 1)) =>
            /\ relationships' = relationships
            /\ err' = "none" /\ pc' = "tabs"
    ]_vars

C11_Witness ==
    /\ last_op.op = "stale delete"
    /\ Len(ListOf(relationships, last_op.owner)) = 2
    /\ last_op.index = 2

(* C12: add(A, B, type) and remove(A, i) change only the list stored under  *)
(* owner A: every other owner keeps its list, and no list appears under     *)
(* another owner, the target B included.                                    *)
C12_OwnerIsolation ==
    [][
        last_op'.op \in {"add", "delete", "stale delete"} =>
            /\ DOMAIN relationships' \subseteq
                    (DOMAIN relationships) \cup {last_op'.owner}
            /\ \A o \in DOMAIN relationships :
                    o /= last_op'.owner =>
                        (/\ o \in DOMAIN relationships'
                         /\ relationships'[o] = relationships[o])
    ]_vars

C12_Witness ==
    /\ last_op.op = "add"
    /\ last_op.target \in DOMAIN relationships
    /\ Len(relationships[last_op.target]) >= 1
    /\ \E o \in all_students : o \notin DOMAIN relationships

-----------------------------------------------------------------------------
(* Karte uploads: the karte file replaced by one with a further line.       *)

MaxUploads == 3        \* lines of the karte text, upload specification

AttentionLine == <<"#", "Ito", " ", "sawagu", "chuui">>
PlainLine == <<"#", "Ito", " ", "genki", "datta">>
ColonNameLine == <<"Ito", ":", " ", "shuchu">>
UploadLines == KarteLines \cup {AttentionLine, PlainLine, ColonNameLine}

(* A new file in the karte uploader reruns the script from the top: the     *)
(* karte is parsed again and every tab recomputed; session_state is kept.   *)
UploadKarte(line) ==
    /\ pc /= "uploaded"
    /\ Len(karte_lines) < MaxUploads
    /\ karte_lines' = Append(karte_lines, line)
    /\ pc' = "uploaded" /\ err' = "none"
    /\ df_karte' = <<>> /\ students_in_class' = <<>> /\ all_students' = {}
    /\ pc1' = "analyze" /\ interactions' = <<>> /\ event_log' = <<>>
    /\ G' = NoGraph /\ fold_pos' = 0
    /\ pc2' = "runs" /\ max_teacher_sequence' = 0 /\ long_run_warning' = FALSE
    /\ pc3' = "class" /\ silent_students' = <<>> /\ suggestions' = <<>>
    /\ suggestion_student' = "" /\ individual_suggestions' = <<>>
    /\ last_op' = [op |-> "upload"]
    /\ UNCHANGED <<df_class, karte_pattern, selected_student, relationships,
                   karte_page, clock>>

InitUploads ==
    /\ df_class \in OneUtterance
    /\ karte_pattern \in KartePatterns
    /\ karte_lines \in SeqsUpTo(UploadLines, 1)
    /\ InitComputed /\ InitSession

NextUploads ==
    \/ ExtractStudents
    \/ \E s \in Students \cup {KarteOnly} : IndividualSuggestions(s)
    \/ \E line \in UploadLines : UploadKarte(line)

SpecUploads == InitUploads /\ [][NextUploads]_vars

(* The suggestions of category behaviour support and priority high. *)
BehaviorCount(sugs) ==
    Len(SelectSeq(sugs, LAMBDA x : x.category = "koudou shien"
                                   /\ x.priority = "high"))

(* The attention keywords found in some note of the student. *)
AttentionKeywordsIn(karte, student_name) ==
    {k \in Range(attention_keywords) :
        \E i \in DOMAIN karte : /\ karte[i].student = student_name
                                /\ Contains(karte[i].note, k)}

(* C13: the behaviour-support suggestions emitted for a student are as many *)
(* as the distinct attention keywords occurring in the student's notes, and *)
(* a further karte line for a student never lowers that student's number.   *)
C13_SuggestionMonotone ==
    [][
        /\ suggestion_student' /= "" =>
              BehaviorCount(individual_suggestions') =
                  Cardinality(AttentionKeywordsIn(df_karte', suggestion_student'))
        /\ karte_lines' /= karte_lines =>
              LET m == Match(karte_pattern, karte_lines'[Len(karte_lines')])
                  before == ParseKarte(karte_pattern, karte_lines)
                  after == ParseKarte(karte_pattern, karte_lines')
              IN  m.ok =>
                    BehaviorCount(generate_teaching_suggestions(
                                      df_class, after, m.student))
                    >= BehaviorCount(generate_teaching_suggestions(
                                      df_class, before, m.student))
    ]_vars

C13_Witness ==
    /\ last_op.op = "upload"
    /\ suggestion_student /= ""
    /\ Len(KarteOf(df_karte, suggestion_student)) >= 2
    /\ Match(karte_pattern, karte_lines[Len(karte_lines)]).ok
    /\ Match(karte_pattern, karte_lines[Len(karte_lines)]).student
            = suggestion_student
    /\ BehaviorCount(individual_suggestions) >= 2

(* C14: whenever the selected student's karte entry is read for display,   *)
(* the cursor satisfies 0 <= karte_page < number of that student's entries, *)
(* and the indexed read does not fail.                                      *)
C14_PageInRange ==
    (/\ pc = "tabs" /\ selected_student /= ""
     /\ KarteCount(selected_student) > 0) =>
        /\ karte_page \in 0..(KarteCount(selected_student) - 1)
        /\ err /= "IndexError"

(* C15: every record stored under an owner has a target that is a known     *)
(* student other than the owner, also when all_students has one student.   *)
C15_TargetsKnown ==
    \A o \in DOMAIN relationships :
        \A k \in DOMAIN relationships[o] :
            relationships[o][k].target \in all_students \ {o}

=============================================================================
